---- MODULE Spec2Model ----
(***************************************************************************)
(* Model of scripts/download_videos.py: the work list built by main from   *)
(* the reference dataset, the thread pool that runs download_video once    *)
(* per row, the aggregation of the outcomes in main, and the pure function *)
(* _extract_error_reason over the downloader's stderr text.                *)
(***************************************************************************)
EXTENDS Integers, Sequences, FiniteSets, TLC

(***************************************************************************)
(* Bounds of the model.                                                    *)
(***************************************************************************)
MaxRows == 3
MaxWorkers == 2
MaxLines == 2
MaxRetries == 1

(***************************************************************************)
(* Optional values (Python None): <<>> is None, <<x>> is the value x.      *)
(***************************************************************************)
None == <<>>
Some(x) == <<x>>
IsNone(o) == o = <<>>
Val(o) == o[1]

Range(s) == {s[i] : i \in 1..Len(s)}

Min(a, b) == IF a <= b THEN a ELSE b
Max(a, b) == IF a >= b THEN a ELSE b

SeqsUpTo(S, n) == UNION {[1..k -> S] : k \in 0..n}

(***************************************************************************)
(* Text: a str is a sequence of one-character strings.                     *)
(***************************************************************************)
UpperChars == <<"A","B","C","D","E","F","G","H","I","J","K","L","M",
                "N","O","P","Q","R","S","T","U","V","W","X","Y","Z">>
LowerChars == <<"a","b","c","d","e","f","g","h","i","j","k","l","m",
                "n","o","p","q","r","s","t","u","v","w","x","y","z">>

Whitespace == {" ", "\t", "\n", "\r"}

\* str.lower() on one character
LowerChar(c) ==
    IF \E i \in 1..26 : UpperChars[i] = c
    THEN LowerChars[CHOOSE i \in 1..26 : UpperChars[i] = c]
    ELSE c

\* str.lower()
Lower(s) == [i \in 1..Len(s) |-> LowerChar(s[i])]

\* str.strip(): leading and trailing whitespace removed
Strip(s) ==
    LET keep == {i \in 1..Len(s) : s[i] \notin Whitespace}
    IN  IF keep = {} THEN <<>>
        ELSE LET lo == CHOOSE i \in keep : \A j \in keep : i <= j
                 hi == CHOOSE i \in keep : \A j \in keep : i >= j
             IN  SubSeq(s, lo, hi)

\* str.split('\n'): always at least one (possibly empty) piece
RECURSIVE SplitLines(_)
SplitLines(s) ==
    LET nl == {i \in 1..Len(s) : s[i] = "\n"}
    IN  IF nl = {} THEN <<s>>
        ELSE LET k == CHOOSE i \in nl : \A j \in nl : i <= j
             IN  <<SubSeq(s, 1, k - 1)>> \o SplitLines(SubSeq(s, k + 1, Len(s)))

\* needle in hay
Contains(hay, needle) ==
    \E i \in 1..(Len(hay) - Len(needle) + 1) :
        SubSeq(hay, i, i + Len(needle) - 1) = needle

\* s.startswith(<one character>)
StartsWith(s, c) == Len(s) >= 1 /\ s[1] = c

\* s[:n]
Prefix(s, n) == SubSeq(s, 1, Min(n, Len(s)))

\* reversed(list)
Reverse(s) == [i \in 1..Len(s) |-> s[Len(s) + 1 - i]]

\* least element of a non-empty set of integers
MinOf(S) == CHOOSE i \in S : \A j \in S : i <= j

(***************************************************************************)
(* _extract_error_reason                                                   *)
(***************************************************************************)
TruncLen == 200

KwError == <<"e","r","r","o","r">>
KwUnavailable == <<"u","n","a","v","a","i","l","a","b","l","e">>
KwPrivate == <<"p","r","i","v","a","t","e">>
KwDeleted == <<"d","e","l","e","t","e","d">>
Keywords == {KwError, KwUnavailable, KwPrivate, KwDeleted}

UnknownError == <<"U","n","k","n","o","w","n"," ","e","r","r","o","r">>

\* line 80-81: the keyword test on one stderr line
IsKeywordLine(line) == \E kw \in Keywords : Contains(Lower(line), kw)

\* line 87: the fallback test on one stderr line
IsFallbackLine(line) == Strip(line) # <<>> /\ ~StartsWith(Strip(line), "[")

\* Mutant of KeywordReason: the lines are scanned from the top
KeywordReason_top_down(stderr_lines) ==
    LET hits == {i \in 1..Len(stderr_lines) : IsKeywordLine(stderr_lines[i])}
    IN  IF hits = {} THEN None ELSE Some(Strip(stderr_lines[MinOf(hits)]))

\* lines 79-83: bottom-up scan for a keyword line
KeywordReason(stderr_lines) ==
    LET scan == Reverse(stderr_lines)
        hits == {i \in 1..Len(scan) : IsKeywordLine(scan[i])}
    IN  IF hits = {} THEN None ELSE Some(Strip(scan[MinOf(hits)]))

\* Mutant of FallbackReason: the length limit is missing
FallbackReason_no_limit(stderr_lines) ==
    LET scan == Reverse(stderr_lines)
        hits == {i \in 1..Len(scan) : IsFallbackLine(scan[i])}
    IN  IF hits = {} THEN None ELSE Some(Strip(scan[MinOf(hits)]))

\* lines 85-89: bottom-up scan for a meaningful line
FallbackReason(stderr_lines) ==
    LET scan == Reverse(stderr_lines)
        hits == {i \in 1..Len(scan) : IsFallbackLine(scan[i])}
    IN  IF hits = {} THEN None
        ELSE Some(Prefix(Strip(scan[MinOf(hits)]), TruncLen))

\* `not error_reason`: None or the empty string
Falsy(o) == IsNone(o) \/ Val(o) = <<>>

\* Mutant of extract_error_reason: the default of lines 90-91 is missing
extract_error_reason_no_default(returncode, stderr) ==
    IF returncode = 0 THEN None
    ELSE LET stderr_lines == SplitLines(Strip(stderr))
             r1 == IF stderr # <<>> THEN KeywordReason(stderr_lines) ELSE None
         IN  IF stderr # <<>> /\ Falsy(r1)
             THEN FallbackReason(stderr_lines) ELSE r1

\* _extract_error_reason(result): None for exit code 0, else a reason text
extract_error_reason(returncode, stderr) ==
    IF returncode = 0 THEN None
    ELSE LET stderr_lines == SplitLines(Strip(stderr))
             r1 == IF stderr # <<>> THEN KeywordReason(stderr_lines) ELSE None
             r2 == IF stderr # <<>> /\ Falsy(r1)
                   THEN FallbackReason(stderr_lines) ELSE r1
         IN  IF Falsy(r2) THEN Some(UnknownError) ELSE r2

VARIABLES
    dataset,          \* rows of the loaded split (input)
    args,             \* parsed command line (input)
    exitcodes,        \* the downloader's exit code for each URL (input)
    files0,           \* video_ids whose output file exists when the run starts
    files,            \* video_ids whose <video_id>.mp4 exists in video_dir
    pc,               \* position of main
    df,               \* the work list
    total_videos,
    downloaded_count,
    failed_count,
    skipped_count,
    failed_videos,    \* dict video_id -> <<video_url, error_reason>>
    task,             \* the futures, in submission order
    saved,            \* the failure CSV written by this run, if any
    exit_code,        \* exit status of the process, once it has ended
    ext,              \* one call of a function looked at on its own: its
                      \* arguments and the value it returned
    earlier           \* the runs that ended before this one: for each, the
                      \* identifiers whose outcome was Failed

inputs == <<dataset, args, exitcodes, files0, ext, earlier>>
counters == <<downloaded_count, failed_count, skipped_count, failed_videos>>
vars == <<dataset, args, exitcodes, files0, ext, earlier, files, pc, df,
          total_videos, downloaded_count, failed_count, skipped_count, failed_videos,
          task, saved, exit_code>>

(***************************************************************************)
(* The work list: a DataFrame of (video_id, video_url) rows is a sequence  *)
(* of records.                                                             *)
(***************************************************************************)
Row(id, url) == [video_id |-> id, video_url |-> url]

\* DataFrame.drop_duplicates(): the first occurrence of every distinct row
\* is kept, in order
DropDuplicates(rows) ==
    LET keep == {i \in 1..Len(rows) : \A j \in 1..(i - 1) : rows[j] # rows[i]}
        nth(k) == CHOOSE i \in keep : Cardinality({j \in keep : j <= i}) = k
    IN  [k \in 1..Cardinality(keep) |-> rows[nth(k)]]

\* A cell of the video_id column of the CSV that has no value
NaN == "NaN"

\* Mutant of load_failed_videos_from_file: the column check of line 98 is
\* missing, and a file without the column reads as a file without identifiers
load_failed_videos_from_file_no_check(csv) ==
    Some(Range(csv.video_id) \ {NaN})

\* load_failed_videos_from_file: None stands for the raised ValueError
load_failed_videos_from_file(csv) ==
    IF ~csv.has_video_id THEN None
    ELSE Some(Range(csv.video_id) \ {NaN})

\* Mutant of IsinFilter: the mask is inverted
IsinFilter_inverted(rows, ids) ==
    LET Test(r) == r.video_id \notin ids
    IN  SelectSeq(rows, Test)

\* df[df['video_id'].isin(failed_video_ids)]
IsinFilter(rows, ids) ==
    LET Test(r) == r.video_id \in ids
    IN  SelectSeq(rows, Test)

\* Mutant of HeadRows: one row too many
HeadRows_off_by_one(rows, n) ==
    IF n >= 0 THEN SubSeq(rows, 1, Min(n + 1, Len(rows)))
    ELSE SubSeq(rows, 1, Max(Len(rows) + n, 0))

\* Mutant of HeadRows: rows with an existing output are dropped before the cut
HeadRows_after_skip(rows, n) ==
    LET Missing(r) == ~(args.skip_existing /\ r.video_id \in files)
        rest == SelectSeq(rows, Missing)
    IN  IF n >= 0 THEN SubSeq(rest, 1, Min(n, Len(rest)))
        ELSE SubSeq(rest, 1, Max(Len(rest) + n, 0))

\* DataFrame.head(n): the first n rows, or all but the last -n rows for n < 0
HeadRows(rows, n) ==
    IF n >= 0 THEN SubSeq(rows, 1, Min(n, Len(rows)))
    ELSE SubSeq(rows, 1, Max(Len(rows) + n, 0))

\* Mutant of ShouldSkip: the --skip_existing flag is not consulted
ShouldSkip_ignores_flag(exists, skip_existing) == exists

\* line 33: the skip test of download_video
ShouldSkip(exists, skip_existing) == exists /\ skip_existing

\* Mutant of StatusOf: a status string main does not know
StatusOf_unknown_label(returncode) == IF returncode = 0 THEN "success" ELSE "error"

\* lines 58-63: the status of a finished downloader invocation
StatusOf(returncode) == IF returncode = 0 THEN "success" ELSE "failed"

\* Mutant of ExitStatus: failures make the exit status nonzero
ExitStatus_counts_failures(n_failed) == IF n_failed > 0 THEN 1 ELSE 0

\* main returns normally after the summary: the interpreter exits with 0
ExitStatus(n_failed) == 0

(***************************************************************************)
(* Inputs of a run.                                                        *)
(***************************************************************************)
Ids == {"a", "b"}
Urls == {"u1", "u2", "u3"}
RowPool == {Row("a", "u1"), Row("a", "u2"), Row("b", "u3")}
Datasets == SeqsUpTo(RowPool, MaxRows)

\* --failed-videos-file: the path given on the command line, and what
\* pd.read_csv finds in the file
RetryFile == <<"f", ".", "c", "s", "v">>

CsvPool == {[path |-> RetryFile, has_video_id |-> FALSE, video_id |-> <<>>],
            [path |-> RetryFile, has_video_id |-> TRUE, video_id |-> <<"a", NaN>>],
            [path |-> RetryFile, has_video_id |-> TRUE,
             video_id |-> <<"b", "d", "b">>]}

ArgSets == [skip_existing : BOOLEAN,
            max_videos : {None} \cup {Some(n) : n \in (-1)..2},
            failed_videos_file : {None} \cup {Some(c) : c \in CsvPool},
            workers : 1..MaxWorkers]

\* ext while _extract_error_reason is looked at as part of download_video
NoCall == [pc |-> "run", returncode |-> 0, stderr |-> <<>>, reason |-> None]

\* Exit codes of the downloader, 0 or nonzero, for the URLs of the dataset
\* (a URL that is not in the dataset is never downloaded)
ExitCodesFor(rows) ==
    {f \in [Urls -> {0, 1}] :
        \A u \in Urls : (\A i \in 1..Len(rows) : rows[i].video_url # u) => f[u] = 0}

\* Initial content of video_dir (it is only ever read under --skip_existing)
FilesFor(a) ==
    IF a.skip_existing THEN {{}, {"a"}, {"a", "b"}} ELSE {{"a"}}

\* The stderr text the downloader prints for a URL when it fails
StderrOf(url) ==
    CASE url = "u1" -> <<"E","R","R","O","R",":"," ","x","\n","[","d","l","]">>
      [] url = "u2" -> <<"[","d","l","]","\n"," ","w","a","r","n"," ">>
      [] OTHER -> <<>>

\* lines 56-63: the error_reason download_video computes from the exit code
\* and the stderr of the downloader run on a URL
ErrorReasonOf ==
    [rc \in {0, 1}, u \in Urls |-> extract_error_reason(rc, StderrOf(u))]

\* {} and d[k] = v on a dict
EmptyDict == [k \in {} |-> <<>>]
DictPut(d, k, v) == [x \in DOMAIN d \cup {k} |-> IF x = k THEN v ELSE d[x]]

(***************************************************************************)
(* lines 170-174: the path of the failure CSV. A path is a sequence of     *)
(* characters.                                                             *)
(***************************************************************************)
\* str.rfind(c), counted from 1: 0 when c does not occur
LastIndexOf(p, c) ==
    LET hits == {i \in 1..Len(p) : p[i] = c}
    IN  IF hits = {} THEN 0 ELSE CHOOSE i \in hits : \A j \in hits : j <= i

\* os.path.splitext: the extension starts at the last dot of the last path
\* component, unless only dots precede that dot in the component
splitext(p) ==
    LET sepIndex == LastIndexOf(p, "/")
        dotIndex == LastIndexOf(p, ".")
    IN  IF /\ dotIndex > sepIndex
           /\ \E k \in (sepIndex + 1)..(dotIndex - 1) : p[k] # "."
        THEN <<SubSeq(p, 1, dotIndex - 1), SubSeq(p, dotIndex, Len(p))>>
        ELSE <<p, <<>> >>

RetrySuffix == <<"_","r","e","t","r","y","_","f","a","i","l","e","d",
                 ".","c","s","v">>

\* f"failed_videos_{args.split}_{args.resolution}p.csv" for the default
\* --split test_expert and --resolution 360
DefaultStem == <<"f","a","i","l","e","d","_","v","i","d","e","o","s","_",
                 "t","e","s","t","_","e","x","p","e","r","t","_",
                 "3","6","0","p">>
DefaultFailedFile == DefaultStem \o <<".","c","s","v">>

\* Mutant of failed_file_path: the retry branch of lines 170-172 is missing
failed_file_path_one_name(failed_videos_file) == DefaultFailedFile

\* lines 170-174; an empty path is falsy, like no path
failed_file_path(failed_videos_file) ==
    IF IsNone(failed_videos_file) \/ Val(failed_videos_file) = <<>>
    THEN DefaultFailedFile
    ELSE splitext(Val(failed_videos_file))[1] \o RetrySuffix

Init ==
    /\ dataset \in Datasets
    /\ args \in ArgSets
    /\ exitcodes \in ExitCodesFor(dataset)
    /\ files0 \in FilesFor(args)
    /\ files = files0
    /\ ext = NoCall
    /\ earlier = <<>>
    /\ pc = "load"
    /\ df = <<>>
    /\ total_videos = 0
    /\ downloaded_count = 0
    /\ failed_count = 0
    /\ skipped_count = 0
    /\ failed_videos = EmptyDict
    /\ task = <<>>
    /\ saved = None
    /\ exit_code = None

(***************************************************************************)
(* main, lines 120-142: building the work list.                            *)
(***************************************************************************)
\* lines 125-126
Load ==
    /\ pc = "load"
    /\ df' = DropDuplicates(dataset)
    /\ pc' = "filter"
    /\ UNCHANGED <<inputs, files, total_videos, counters, task, saved, exit_code>>

\* lines 129-132; the ValueError of load_failed_videos_from_file ends the run
Filter ==
    /\ pc = "filter"
    /\ IF IsNone(args.failed_videos_file)
       THEN /\ pc' = "truncate"
            /\ UNCHANGED <<df, exit_code>>
       ELSE LET failed_video_ids ==
                    load_failed_videos_from_file(Val(args.failed_videos_file))
            IN  IF IsNone(failed_video_ids)
                THEN /\ pc' = "error"
                     /\ exit_code' = Some(1)
                     /\ UNCHANGED df
                ELSE /\ df' = IsinFilter(df, Val(failed_video_ids))
                     /\ pc' = "truncate"
                     /\ UNCHANGED exit_code
    /\ UNCHANGED <<inputs, files, total_videos, counters, task, saved>>

\* lines 134-142
Truncate ==
    /\ pc = "truncate"
    /\ df' = IF IsNone(args.max_videos) THEN df ELSE HeadRows(df, Val(args.max_videos))
    /\ total_videos' = Len(df')
    /\ downloaded_count' = 0
    /\ failed_count' = 0
    /\ skipped_count' = 0
    /\ failed_videos' = EmptyDict
    /\ pc' = "pool"
    /\ UNCHANGED <<inputs, files, task, saved, exit_code>>

(***************************************************************************)
(* main, lines 145-150, and the worker threads of the ThreadPoolExecutor.  *)
(***************************************************************************)
Submitted == pc = "pool" /\ Len(task) = Len(df)
Busy == {i \in 1..Len(task) : task[i].state \in {"picked", "running"}}

\* line 148: executor.submit for the next row of df.iterrows()
Submit ==
    /\ pc = "pool"
    /\ Len(task) < Len(df)
    /\ task' = Append(task, [state |-> "queued", runs |-> 0, result |-> None])
    /\ UNCHANGED <<inputs, files, pc, df, total_videos, counters, saved, exit_code>>

\* Mutant of Pick: a thread is started for every queued work item
Pick_no_limit(i) ==
    /\ task[i].state = "queued"
    /\ \A j \in 1..(i - 1) : task[j].state # "queued"
    /\ task' = [task EXCEPT ![i].state = "picked"]
    /\ UNCHANGED <<inputs, files, pc, df, total_videos, counters, saved, exit_code>>

\* an idle worker takes the oldest queued work item
Pick(i) ==
    /\ task[i].state = "queued"
    /\ \A j \in 1..(i - 1) : task[j].state # "queued"
    /\ Cardinality(Busy) < args.workers
    /\ task' = [task EXCEPT ![i].state = "picked"]
    /\ UNCHANGED <<inputs, files, pc, df, total_videos, counters, saved, exit_code>>

\* Mutant of download_video_enter: the task counts its own skip in the
\* counter of main
download_video_enter_counting(i) ==
    /\ task[i].state = "picked"
    /\ LET row == df[i]
       IN  IF ShouldSkip(row.video_id \in files, args.skip_existing)
           THEN /\ task' = [task EXCEPT ![i].state = "finished",
                                ![i].result = Some([video_id |-> row.video_id,
                                                    status |-> "skipped",
                                                    video_url |-> row.video_url,
                                                    error_reason |-> None])]
                /\ skipped_count' = skipped_count + 1
           ELSE /\ task' = [task EXCEPT ![i].state = "running",
                                ![i].runs = @ + 1]
                /\ UNCHANGED skipped_count
    /\ UNCHANGED <<inputs, files, pc, df, total_videos, downloaded_count,
                   failed_count, failed_videos, saved, exit_code>>

\* download_video, lines 28-56: the skip test, then the downloader is started
download_video_enter(i) ==
    /\ task[i].state = "picked"
    /\ LET row == df[i]
       IN  IF ShouldSkip(row.video_id \in files, args.skip_existing)
           THEN task' = [task EXCEPT ![i].state = "finished",
                             ![i].result = Some([video_id |-> row.video_id,
                                                 status |-> "skipped",
                                                 video_url |-> row.video_url,
                                                 error_reason |-> None])]
           ELSE task' = [task EXCEPT ![i].state = "running",
                             ![i].runs = @ + 1]
    /\ UNCHANGED <<inputs, files, pc, df, total_videos, counters, saved, exit_code>>

\* Mutant of download_video_return: a failed download is tried once more
download_video_return_retry(i) ==
    /\ task[i].state = "running"
    /\ LET row == df[i]
           returncode == exitcodes[row.video_url]
       IN  IF returncode # 0 /\ task[i].runs < 2
           THEN /\ task' = [task EXCEPT ![i].runs = @ + 1]
                /\ UNCHANGED files
           ELSE /\ files' = IF returncode = 0 THEN files \cup {row.video_id}
                            ELSE files
                /\ task' = [task EXCEPT ![i].state = "finished",
                                ![i].result =
                                    Some([video_id |-> row.video_id,
                                          status |-> StatusOf(returncode),
                                          video_url |-> row.video_url,
                                          error_reason |->
                                              ErrorReasonOf[returncode,
                                                            row.video_url]])]
    /\ UNCHANGED <<inputs, pc, df, total_videos, counters, saved, exit_code>>

\* download_video, lines 56-65: the downloader exits; exit code 0 leaves the
\* output file behind
download_video_return(i) ==
    /\ task[i].state = "running"
    /\ LET row == df[i]
           returncode == exitcodes[row.video_url]
       IN  /\ files' = IF returncode = 0 THEN files \cup {row.video_id} ELSE files
           /\ task' = [task EXCEPT ![i].state = "finished",
                           ![i].result =
                               Some([video_id |-> row.video_id,
                                     status |-> StatusOf(returncode),
                                     video_url |-> row.video_url,
                                     error_reason |->
                                         ErrorReasonOf[returncode,
                                                       row.video_url]])]
    /\ UNCHANGED <<inputs, pc, df, total_videos, counters, saved, exit_code>>

(***************************************************************************)
(* main, lines 153-165: one iteration of the as_completed loop.            *)
(***************************************************************************)
Collect(i) ==
    /\ Submitted
    /\ task[i].state = "finished"
    /\ LET r == Val(task[i].result)
       IN  /\ downloaded_count' =
                  IF r.status = "success" THEN downloaded_count + 1
                  ELSE downloaded_count
           /\ failed_count' =
                  IF r.status = "failed" THEN failed_count + 1 ELSE failed_count
           /\ failed_videos' =
                  IF r.status = "failed"
                  THEN DictPut(failed_videos, r.video_id,
                               <<r.video_url, r.error_reason>>)
                  ELSE failed_videos
           /\ skipped_count' =
                  IF r.status = "skipped" THEN skipped_count + 1
                  ELSE skipped_count
    /\ task' = [task EXCEPT ![i].state = "collected"]
    /\ UNCHANGED <<inputs, files, pc, df, total_videos, saved, exit_code>>

Drained == Submitted /\ \A i \in 1..Len(task) : task[i].state = "collected"

\* lines 167-176
Save ==
    /\ Drained
    /\ saved' =
           IF DOMAIN failed_videos # {}
           THEN Some([path |-> failed_file_path(
                                   IF IsNone(args.failed_videos_file) THEN None
                                   ELSE Some(Val(args.failed_videos_file).path)),
                      rows |-> failed_videos])
           ELSE saved
    /\ pc' = "summary"
    /\ UNCHANGED <<inputs, files, df, total_videos, counters, task, exit_code>>

\* lines 178-205, and the return of main to the interpreter
Summary ==
    /\ pc = "summary"
    /\ pc' = "done"
    /\ exit_code' = Some(ExitStatus(failed_count))
    /\ UNCHANGED <<inputs, files, df, total_videos, counters, task, saved>>

Next ==
    \/ Load
    \/ Filter
    \/ Truncate
    \/ Submit
    \/ \E i \in 1..Len(task) : Pick(i)
    \/ \E i \in 1..Len(task) : download_video_enter(i)
    \/ \E i \in 1..Len(task) : download_video_return(i)
    \/ \E i \in 1..Len(task) : Collect(i)
    \/ Save
    \/ Summary

Spec == Init /\ [][Next]_vars

(***************************************************************************)
(* Scheduling: the main thread and the worker threads keep running, and    *)
(* every downloader subprocess that was started exits.                     *)
(***************************************************************************)
Fairness == WF_vars(Next)

\* Runs over the reference lists that repeat no row
LiveInit ==
    /\ Init
    /\ DropDuplicates(dataset) = dataset

FairSpec == LiveInit /\ [][Next]_vars /\ Fairness

(***************************************************************************)
(* _extract_error_reason on its own: one call on a result object whose     *)
(* stderr is up to MaxLines lines of LinePool joined by newlines.          *)
(***************************************************************************)
LongLine == <<" ">> \o [i \in 1..203 |-> "z"]
LongKeywordLine == <<"D","e","l","e","t","e","d",":">> \o [i \in 1..200 |-> "z"]

LinePool ==
    {<<"E","R","R","O","R",":"," ","x">>,
     <<" ","V","i","d","e","o"," ","u","n","a","v","a","i","l","a","b","l","e"," ">>,
     <<"[","d","l","]"," ","P","r","i","v","a","t","e">>,
     <<"[","d","l","]"," ","y">>,
     <<" "," ","[","d","l","]"," ","y">>,
     <<"\t","w","a","r","n"," ">>,
     <<>>,
     <<" "," ">>,
     LongLine,
     LongKeywordLine}

\* '\n'.join(lines)
JoinLines(lines) ==
    LET F[i \in 0..Len(lines)] ==
            IF i = 0 THEN <<>>
            ELSE IF i = 1 THEN lines[1]
            ELSE F[i - 1] \o <<"\n">> \o lines[i]
    IN  F[Len(lines)]

Texts == {JoinLines(ls) : ls \in SeqsUpTo(LinePool, MaxLines)}
ReturnCodes == {0, 1, 2}

\* the variables of the run, at rest while the function is looked at alone
RunIdle ==
    /\ dataset = <<>>
    /\ args = [skip_existing |-> FALSE, max_videos |-> None,
               failed_videos_file |-> None, workers |-> 1]
    /\ exitcodes = [u \in Urls |-> 0]
    /\ files0 = {}
    /\ files = {}
    /\ earlier = <<>>
    /\ pc = "idle"
    /\ df = <<>>
    /\ total_videos = 0
    /\ downloaded_count = 0
    /\ failed_count = 0
    /\ skipped_count = 0
    /\ failed_videos = EmptyDict
    /\ task = <<>>
    /\ saved = None
    /\ exit_code = None

ReasonInit ==
    /\ RunIdle
    /\ ext \in [pc : {"call"}, returncode : ReturnCodes, stderr : Texts,
                reason : {None}]

\* lines 68-93
Extract ==
    /\ ext.pc = "call"
    /\ ext' = [ext EXCEPT !.pc = "returned",
                          !.reason = extract_error_reason(ext.returncode, ext.stderr)]
    /\ UNCHANGED <<dataset, args, exitcodes, files0, earlier, files, pc, df,
                   total_videos, counters, task, saved, exit_code>>

ReasonNext == Extract

ReasonSpec == ReasonInit /\ [][ReasonNext]_vars

(***************************************************************************)
(* A second run on the failure CSV of the first: save_failed_videos_to_file*)
(* (lines 103-114) writes the file, the user passes its path as            *)
(* --failed-videos-file without --max-videos, and pd.read_csv (line 97)    *)
(* reads it back.                                                          *)
(***************************************************************************)
\* DataFrame.to_csv(index=False): the header and the text of the cells of
\* the video_id column, one per key of the dict (a str cell is written as
\* it is; the order of the rows plays no part in what is read back)
to_csv(failed) ==
    LET ids == DOMAIN failed
    IN  [columns |-> <<"video_id", "video_url", "error_reason">>,
         video_id |-> CHOOSE sq \in [1..Cardinality(ids) -> ids] :
                          Range(sq) = ids]

\* cell texts pd.read_csv takes for a missing value (among others)
NaStrings == {"NaN", "NA"}
\* cell texts pd.read_csv can parse as a number
NumericTexts == {"7"}
\* the int64 or float64 a numeric text is parsed to: a value that no str
\* equals
ParsedNumber(text) == CASE text = "7" -> "int64 7"

\* pd.read_csv with the default dtype inference: the missing-value texts
\* become NaN; a column whose other cells are all numeric becomes a column
\* of numbers, any other column keeps its cells as str
read_csv(path, text) ==
    LET cells == text.video_id
        missing(i) == cells[i] \in NaStrings
        numeric == \A i \in 1..Len(cells) : missing(i) \/ cells[i] \in NumericTexts
    IN  [path |-> path,
         has_video_id |-> "video_id" \in Range(text.columns),
         video_id |-> [i \in 1..Len(cells) |->
                          IF missing(i) THEN NaN
                          ELSE IF numeric THEN ParsedNumber(cells[i])
                          ELSE cells[i]]]

\* the identifiers whose outcome in the run that has ended was Failed
FailedIds ==
    {Val(task[i].result).video_id :
        i \in {j \in 1..Len(task) : Val(task[j].result).status = "failed"}}

\* the next run: same dataset and video_dir, --failed-videos-file is the
\* file the run that has ended wrote
Rerun ==
    /\ pc = "done"
    /\ earlier = <<>>
    /\ ~IsNone(saved)
    /\ earlier' = Append(earlier, FailedIds)
    /\ args' = [args EXCEPT
                   !.failed_videos_file =
                       Some(read_csv(Val(saved).path, to_csv(Val(saved).rows))),
                   !.max_videos = None]
    /\ files0' = files
    /\ pc' = "load"
    /\ df' = <<>>
    /\ total_videos' = 0
    /\ downloaded_count' = 0
    /\ failed_count' = 0
    /\ skipped_count' = 0
    /\ failed_videos' = EmptyDict
    /\ task' = <<>>
    /\ saved' = None
    /\ exit_code' = None
    /\ UNCHANGED <<dataset, exitcodes, ext, files>>

\* reference lists of a first run: no identifier twice; one identifier
\* looks like a number, one like a missing value
RoundTripRowPool == {Row("a", "u1"), Row("7", "u2"), Row("NA", "u3")}

RoundTripInit ==
    /\ dataset \in {d \in SeqsUpTo(RoundTripRowPool, MaxRows) :
                       DropDuplicates(d) = d}
    /\ args \in [skip_existing : BOOLEAN,
                 max_videos : {None, Some(2)},
                 failed_videos_file : {None},
                 workers : 1..MaxWorkers]
    /\ exitcodes \in ExitCodesFor(dataset)
    /\ files0 \in IF args.skip_existing THEN {{}, {"a"}} ELSE {{}}
    /\ files = files0
    /\ ext = NoCall
    /\ earlier = <<>>
    /\ pc = "load"
    /\ df = <<>>
    /\ total_videos = 0
    /\ downloaded_count = 0
    /\ failed_count = 0
    /\ skipped_count = 0
    /\ failed_videos = EmptyDict
    /\ task = <<>>
    /\ saved = None
    /\ exit_code = None

RoundTripNext == Next \/ Rerun

RoundTripSpec == RoundTripInit /\ [][RoundTripNext]_vars

(***************************************************************************)
(* Lines 170-174 on their own: the failure CSV path computed for a         *)
(* --failed-videos-file argument. The arguments are paths with and without *)
(* directory and extension, hidden files, the name a first run writes, and *)
(* names that up to MaxRetries earlier retry runs have written.            *)
(***************************************************************************)
PathDirs == {<<>>, <<"d", "/">>, <<"d", ".", "x", "/">>, <<".", "/">>}
PathStems == {<<>>, <<"f">>, <<".", "f">>, <<".", ".">>, <<"f", ".", "t">>,
              DefaultStem}
PathExts == {<<>>, <<".", "c", "s", "v">>, <<".">>}

\* the suffix k successive retry runs leave on a name
Retried(k) ==
    LET F[i \in 0..k] == IF i = 0 THEN <<>> ELSE F[i - 1] \o RetrySuffix
    IN  F[k]

Paths == {d \o s \o e \o Retried(k) :
              d \in PathDirs, s \in PathStems, e \in PathExts, k \in 0..MaxRetries}

PathInit ==
    /\ RunIdle
    /\ ext \in [pc : {"call"},
                failed_videos_file : {None} \cup {Some(p) : p \in Paths},
                failed_file_path : {None}]

MakePath ==
    /\ ext.pc = "call"
    /\ ext' = [ext EXCEPT !.pc = "returned",
                          !.failed_file_path =
                              Some(failed_file_path(ext.failed_videos_file))]
    /\ UNCHANGED <<dataset, args, exitcodes, files0, earlier, files, pc, df,
                   total_videos, counters, task, saved, exit_code>>

PathNext == MakePath

PathSpec == PathInit /\ [][PathNext]_vars

(***************************************************************************)
(* Lines 56-65 of download_video on their own: the tuple returned for one  *)
(* row once the downloader has exited with some exit code and some stderr. *)
(***************************************************************************)
ClassifyRows == {Row("b", "u3")}

ClassifyInit ==
    /\ RunIdle
    /\ ext \in [pc : {"call"}, row : ClassifyRows, returncode : ReturnCodes,
                stderr : Texts, result : {None}]

Classify ==
    /\ ext.pc = "call"
    /\ LET status == StatusOf(ext.returncode)
           error_reason == IF ext.returncode = 0 THEN None
                           ELSE extract_error_reason(ext.returncode, ext.stderr)
       IN  ext' = [ext EXCEPT !.pc = "returned",
                              !.result = Some([video_id |-> ext.row.video_id,
                                               status |-> status,
                                               video_url |-> ext.row.video_url,
                                               error_reason |-> error_reason])]
    /\ UNCHANGED <<dataset, args, exitcodes, files0, earlier, files, pc, df,
                   total_videos, counters, task, saved, exit_code>>

ClassifyNext == Classify

ClassifySpec == ClassifyInit /\ [][ClassifyNext]_vars

(***************************************************************************)
(* Vocabulary of the properties.                                           *)
(***************************************************************************)
PoolDrained == Drained \/ pc \in {"summary", "done"}
Built == pc \in {"pool", "summary", "done"}

HasFile == ~IsNone(args.failed_videos_file)
FileIds == Range(Val(args.failed_videos_file).video_id) \ {NaN}

\* The reference list after deduplication and retry filtering, before the cut
Filtered ==
    IF HasFile THEN IsinFilter(DropDuplicates(dataset), FileIds)
    ELSE DropDuplicates(dataset)

UniqueIds(rows) ==
    \A i, j \in 1..Len(rows) : i # j => rows[i].video_id # rows[j].video_id

HasOutcome(i) == task[i].state \in {"finished", "collected"}
StatusAt(i) == Val(task[i].result).status
Invoked == {i \in 1..Len(task) : task[i].runs > 0}

\* position of the first occurrence of row r in the dataset
FirstPos(r) == CHOOSE i \in 1..Len(dataset) :
                   dataset[i] = r /\ \A j \in 1..(i - 1) : dataset[j] # r

(***************************************************************************)
(* C1: once the pool has drained, downloaded_count + failed_count +        *)
(* skipped_count equals total_videos, and total_videos is the length of    *)
(* the deduplicated, retry-filtered and truncated reference list.          *)
(***************************************************************************)
C1_CountsSumToTotal ==
    PoolDrained =>
        /\ downloaded_count + failed_count + skipped_count = total_videos
        /\ total_videos = Len(df)
        /\ total_videos =
               Len(IF IsNone(args.max_videos) THEN Filtered
                   ELSE HeadRows(Filtered, Val(args.max_videos)))

C1_Witness ==
    /\ pc = "done"
    /\ downloaded_count >= 1
    /\ failed_count >= 1
    /\ skipped_count >= 1

(***************************************************************************)
(* C2: the final counts and the failed set are the same for every order    *)
(* in which the tasks start and complete: with fewer workers than tasks,   *)
(* every finished run ends with the result of running the tasks one after  *)
(* the other in list order on the same inputs.                             *)
(***************************************************************************)
\* The run that takes the rows one at a time, in list order
InOrder ==
    LET step(st, row) ==
            IF ShouldSkip(row.video_id \in st.files, args.skip_existing)
            THEN [st EXCEPT !.skipped = @ + 1]
            ELSE IF exitcodes[row.video_url] = 0
                 THEN [st EXCEPT !.downloaded = @ + 1,
                                 !.files = @ \cup {row.video_id}]
                 ELSE [st EXCEPT !.failed = @ + 1,
                                 !.failed_ids = @ \cup {row.video_id}]
        F[i \in 0..Len(df)] ==
            IF i = 0
            THEN [files |-> files0, downloaded |-> 0, failed |-> 0,
                  skipped |-> 0, failed_ids |-> {}]
            ELSE step(F[i - 1], df[i])
    IN  F[Len(df)]

SameAsInOrder ==
    /\ downloaded_count = InOrder.downloaded
    /\ failed_count = InOrder.failed
    /\ skipped_count = InOrder.skipped
    /\ DOMAIN failed_videos = InOrder.failed_ids

C2_OrderIndependent ==
    (pc = "done" /\ args.workers < Len(df)) => SameAsInOrder

(***************************************************************************)
(* C3: the work list built by main holds every identifier once.            *)
(***************************************************************************)
C3_IdsUnique == Built => UniqueIds(df)

(***************************************************************************)
(* C4 as stated: with --skip_existing, a row whose output file exists      *)
(* never becomes a task of the pool and is counted as skipped; without     *)
(* the flag every row becomes a task.                                      *)
(***************************************************************************)
C4_NoTaskForExisting ==
    /\ \A i \in 1..Len(task) :
           ~(args.skip_existing /\ df[i].video_id \in files0)
    /\ pc = "done" =>
           skipped_count >=
               Cardinality({i \in 1..Len(df) :
                   args.skip_existing /\ df[i].video_id \in files0})
    /\ (pc = "done" /\ ~args.skip_existing) => Len(task) = Len(df)

(***************************************************************************)
(* C4 amended: every row of the work list becomes a task of the pool.      *)
(* With --skip_existing, the task of a row whose output file exists never  *)
(* starts the downloader and the row is counted as skipped; without the    *)
(* flag the downloader is started for every row, whether or not its file   *)
(* exists.                                                                 *)
(***************************************************************************)
C4_SkipInsideTask ==
    /\ \A i \in 1..Len(task) :
           /\ (args.skip_existing /\ df[i].video_id \in files0) =>
                  /\ task[i].runs = 0
                  /\ HasOutcome(i) => StatusAt(i) = "skipped"
           /\ (~args.skip_existing /\ HasOutcome(i)) =>
                  /\ task[i].runs = 1
                  /\ StatusAt(i) # "skipped"
    /\ pc = "done" =>
           /\ Len(task) = Len(df)
           /\ skipped_count =
                  Cardinality({i \in 1..Len(task) : StatusAt(i) = "skipped"})
           /\ skipped_count >=
                  Cardinality({i \in 1..Len(df) :
                      args.skip_existing /\ df[i].video_id \in files0})

C4_Witness ==
    /\ pc = "done"
    /\ args.skip_existing
    /\ \E i \in 1..Len(task) : df[i].video_id \in files0 /\ task[i].runs = 0
    /\ \E i \in 1..Len(task) : df[i].video_id \notin files0 /\ task[i].runs = 1
    /\ skipped_count >= 1

(***************************************************************************)
(* C5 as stated: with --skip_existing and --max-videos N, rows with an     *)
(* existing output are excluded first and the cut to N rows applies to     *)
(* the rest, so the rows downloaded are the first N rows that have no      *)
(* output file. Stated for reference lists with one row per identifier.    *)
(***************************************************************************)
NoOutputYet(r) == r.video_id \notin files0

C5_SkipThenTruncate ==
    (/\ pc = "done"
     /\ args.skip_existing
     /\ ~IsNone(args.max_videos)
     /\ Val(args.max_videos) >= 0
     /\ UniqueIds(Filtered)) =>
        LET rest == SelectSeq(Filtered, NoOutputYet)
            firstN == SubSeq(rest, 1, Min(Val(args.max_videos), Len(rest)))
        IN  {df[i] : i \in Invoked} = Range(firstN)

(***************************************************************************)
(* C5 amended: with --skip_existing and --max-videos N, the cut to the     *)
(* first N rows of the deduplicated, retry-filtered list comes first and   *)
(* the skip test is applied to those N rows only: a row among them whose   *)
(* output file exists is skipped, and no row after the first N is ever     *)
(* downloaded, even when fewer than N rows are downloaded.                 *)
(***************************************************************************)
C5_TruncateThenSkip ==
    (/\ Built
     /\ args.skip_existing
     /\ ~IsNone(args.max_videos)
     /\ Val(args.max_videos) >= 0) =>
        LET n == Min(Val(args.max_videos), Len(Filtered))
        IN  /\ df = SubSeq(Filtered, 1, n)
            /\ \A i \in Invoked : i <= n /\ Filtered[i].video_id \notin files0
            /\ pc = "done" =>
                   \A i \in 1..n :
                       /\ Filtered[i].video_id \in files0 =>
                              StatusAt(i) = "skipped"
                       /\ (UniqueIds(Filtered) /\ Filtered[i].video_id \notin files0)
                              => i \in Invoked

\* the first row is skipped, the cut leaves out a row that has no output file
C5_Witness ==
    /\ pc = "done"
    /\ args.skip_existing
    /\ args.max_videos = Some(1)
    /\ Len(Filtered) >= 2
    /\ Filtered[1].video_id \in files0
    /\ Filtered[2].video_id \notin files0
    /\ Invoked = {}
    /\ skipped_count = 1

C7_FirstN ==
    (Built /\ ~IsNone(args.max_videos) /\ Val(args.max_videos) >= 0) =>
        LET n == Min(Val(args.max_videos), Len(Filtered))
        IN  /\ Len(df) = n
            /\ \A i \in 1..n : df[i] = Filtered[i]
            /\ Len(task) <= n
            /\ pc = "done" =>
                   /\ Len(task) = n
                   /\ \A i \in 1..n : task[i].state = "collected"
                   /\ downloaded_count + failed_count + skipped_count = n

\* two of three rows are processed
C7_Witness ==
    /\ pc = "done"
    /\ args.max_videos = Some(2)
    /\ Len(Filtered) = 3
    /\ Len(task) = 2
    /\ \A i \in 1..2 : task[i].state = "collected"

(***************************************************************************)
(* Vocabulary of the properties of _extract_error_reason: the lines of the *)
(* diagnostic text as printed, and the ones that mention a keyword.        *)
(***************************************************************************)
RawLines == SplitLines(ext.stderr)
MaxOf(S) == CHOOSE i \in S : \A j \in S : i >= j

MentionsKeyword(line) ==
    \/ Contains(Lower(line), KwError)
    \/ Contains(Lower(line), KwUnavailable)
    \/ Contains(Lower(line), KwPrivate)
    \/ Contains(Lower(line), KwDeleted)

KeywordIdx == {i \in 1..Len(RawLines) : MentionsKeyword(RawLines[i])}
ReturnedNonzero == ext.pc = "returned" /\ ext.returncode # 0

(***************************************************************************)
(* C8: for a nonzero exit whose stderr has a line that contains "error",   *)
(* "unavailable", "private" or "deleted" in any letter case, the reason    *)
(* is the last such line, trimmed (and not shortened).                     *)
(***************************************************************************)
C8_KeywordLine ==
    (ReturnedNonzero /\ KeywordIdx # {}) =>
        ext.reason = Some(Strip(RawLines[MaxOf(KeywordIdx)]))

\* two different keyword lines: the lower one is the reason
C8_Witness ==
    /\ ReturnedNonzero
    /\ Len(RawLines) = 2
    /\ KeywordIdx = {1, 2}
    /\ Strip(RawLines[1]) # Strip(RawLines[2])
    /\ RawLines[2] # Strip(RawLines[2])
    /\ ext.reason = Some(Strip(RawLines[2]))

(***************************************************************************)
(* C9 as stated: for a nonzero exit whose stderr has no keyword line, the  *)
(* reason is the last non-empty line that does not start with "[", cut to  *)
(* 200 characters, and "Unknown error" when there is no such line.         *)
(***************************************************************************)
C9_LastPlainLine ==
    (ReturnedNonzero /\ KeywordIdx = {}) =>
        LET cand == {i \in 1..Len(RawLines) :
                        RawLines[i] # <<>> /\ ~StartsWith(RawLines[i], "[")}
        IN  ext.reason = IF cand = {} THEN Some(UnknownError)
                         ELSE Some(Prefix(RawLines[MaxOf(cand)], TruncLen))

(***************************************************************************)
(* C9 amended: for a nonzero exit whose stderr has no keyword line, the    *)
(* reason is the last line that is non-empty after trimming and whose      *)
(* trimmed text does not start with "[", trimmed and then cut to 200       *)
(* characters; it is "Unknown error" when there is no such line or the     *)
(* text is empty.                                                          *)
(***************************************************************************)
C9_LastPlainLineTrimmed ==
    (ReturnedNonzero /\ KeywordIdx = {}) =>
        LET cand == {i \in 1..Len(RawLines) :
                        /\ Strip(RawLines[i]) # <<>>
                        /\ ~StartsWith(Strip(RawLines[i]), "[")}
        IN  ext.reason = IF cand = {} THEN Some(UnknownError)
                         ELSE Some(Prefix(Strip(RawLines[MaxOf(cand)]), TruncLen))

\* a line of more than 200 characters above a bracketed line
C9_Witness ==
    /\ ReturnedNonzero
    /\ KeywordIdx = {}
    /\ Len(RawLines) = 2
    /\ Len(Strip(RawLines[1])) > TruncLen
    /\ StartsWith(RawLines[2], "[")
    /\ Len(Val(ext.reason)) = TruncLen

(***************************************************************************)
(* C10: download failures are never fatal. Once the work list is built,    *)
(* whatever the exit codes of the downloader, the run reaches the summary  *)
(* with every task completed and aggregated, and the process ends with     *)
(* exit status 0.                                                          *)
(***************************************************************************)
EndedNormally ==
    /\ pc = "done"
    /\ exit_code = Some(0)
    /\ Len(task) = Len(df)
    /\ \A i \in 1..Len(task) : task[i].state = "collected"

C10_FailuresNotFatal == (pc = "truncate") ~> EndedNormally

\* a run with a failed and a successful download has ended with status 0
C10_Witness ==
    /\ EndedNormally
    /\ failed_count >= 1
    /\ downloaded_count >= 1
    /\ \E u \in Urls : exitcodes[u] # 0

(***************************************************************************)
(* C11: a configuration error aborts the run before any download starts.   *)
(* When the failed-videos file has no video_id column, the run never gets  *)
(* past the filter: it ends in the error state with a nonzero exit status, *)
(* no task submitted to the pool, no downloader invocation, no output file *)
(* and no failure file written. No other run ends in the error state.      *)
(***************************************************************************)
ConfigError == HasFile /\ ~Val(args.failed_videos_file).has_video_id

C11_ConfigErrorAborts ==
    /\ ConfigError =>
           /\ pc \in {"load", "filter", "error"}
           /\ task = <<>>
           /\ Invoked = {}
           /\ files = files0
           /\ saved = None
           /\ pc = "error" => exit_code = Some(1)
    /\ pc = "error" => ConfigError

\* the run has aborted although the dataset had videos to download
C11_Witness ==
    /\ pc = "error"
    /\ ConfigError
    /\ Len(dataset) >= 2
    /\ exit_code = Some(1)

(***************************************************************************)
(* C12: in a retry run (a failed-videos file is given), the path the       *)
(* failure record is written to differs from the path of the input file,   *)
(* whatever that path is, so the run never overwrites its input file.      *)
(***************************************************************************)
RetryRun ==
    /\ ~IsNone(ext.failed_videos_file)
    /\ Val(ext.failed_videos_file) # <<>>

EndsWith(s, t) ==
    /\ Len(t) <= Len(s)
    /\ SubSeq(s, Len(s) - Len(t) + 1, Len(s)) = t

C12_RetryPathDiffers ==
    (ext.pc = "returned" /\ RetryRun) =>
        /\ Val(ext.failed_file_path) # Val(ext.failed_videos_file)
        /\ EndsWith(Val(ext.failed_file_path), RetrySuffix)

\* the input is the file a first run writes by default, and the retry run
\* writes its own failures next to it
C12_Witness ==
    /\ ext.pc = "returned"
    /\ ext.failed_videos_file = Some(DefaultFailedFile)
    /\ ext.failed_file_path = Some(DefaultStem \o RetrySuffix)

(***************************************************************************)
(* C13: round trip across runs. When the second run is given the failure   *)
(* record the first run persisted as its failed-videos file (same split,   *)
(* no max-videos), the identifiers of the work list of the second run are  *)
(* exactly the identifiers that ended the first run as Failed.             *)
(***************************************************************************)
WorkListIds == {df[i].video_id : i \in 1..Len(df)}

C13_RoundTrip ==
    (Len(earlier) = 1 /\ pc \in {"pool", "summary", "done"}) =>
        WorkListIds = earlier[1]

(***************************************************************************)
(* C14: after the pool drains, the failure map (and the persisted failure  *)
(* record) reflects every Failed task exactly once: its number of entries  *)
(* equals failed_count, and it holds one (identifier, URL, reason) entry   *)
(* per Failed outcome.                                                     *)
(***************************************************************************)
FailedTasks ==
    {i \in 1..Len(task) : HasOutcome(i) /\ StatusAt(i) = "failed"}

C14_FailureMapComplete ==
    PoolDrained =>
        /\ Cardinality(DOMAIN failed_videos) = failed_count
        /\ Cardinality(FailedTasks) = failed_count
        /\ \A i \in FailedTasks :
               LET r == Val(task[i].result)
               IN  /\ r.video_id \in DOMAIN failed_videos
                   /\ failed_videos[r.video_id] = <<r.video_url, r.error_reason>>
        /\ (pc \in {"summary", "done"} /\ failed_count > 0) =>
               /\ ~IsNone(saved)
               /\ Val(saved).rows = failed_videos

(***************************************************************************)
(* C15: no two tasks of one run target the same output path, so at no      *)
(* point do two concurrently running downloader invocations write to the   *)
(* same file.                                                              *)
(***************************************************************************)
\* line 30: the file name of the output inside video_dir
video_path(row) == <<row.video_id, ".mp4">>

Running == {i \in 1..Len(task) : task[i].state = "running"}

C15_DistinctOutputPaths ==
    /\ \A i, j \in 1..Len(task) :
           i # j => video_path(df[i]) # video_path(df[j])
    /\ \A i, j \in Running :
           i # j => video_path(df[i]) # video_path(df[j])

\* two downloader invocations are running on the same output path
C15_SharedPathRunning ==
    \E i, j \in Running : i # j /\ video_path(df[i]) = video_path(df[j])

(***************************************************************************)
(* C16: at every point of a run, the number of downloader subprocesses     *)
(* executing at the same time is at most --workers; the tasks beyond that  *)
(* bound wait in the queue, not started, until a worker is free.           *)
(***************************************************************************)
Queued == {i \in 1..Len(task) : task[i].state = "queued"}

C16_WorkerBound ==
    /\ Cardinality(Running) <= args.workers
    /\ Cardinality(Busy) <= args.workers
    /\ \A i \in Queued : task[i].runs = 0 /\ IsNone(task[i].result)

\* every worker runs a downloader and a further task waits in the queue
C16_Witness ==
    /\ args.workers = 2
    /\ Cardinality(Running) = 2
    /\ Queued # {}

(***************************************************************************)
(* C17: exactly-once execution. Over a whole run the downloader is invoked *)
(* exactly once for each work-list item that is not skipped and never for  *)
(* a skipped item (no retry, no duplicate invocation), every item is one   *)
(* task, and every task yields exactly one outcome.                        *)
(***************************************************************************)
C17_ExactlyOnce ==
    /\ Len(task) <= Len(df)
    /\ \A i \in 1..Len(task) :
           /\ task[i].runs <= 1
           /\ task[i].state \in {"queued", "picked"} =>
                  task[i].runs = 0 /\ IsNone(task[i].result)
           /\ task[i].state = "running" =>
                  task[i].runs = 1 /\ IsNone(task[i].result)
           /\ HasOutcome(i) =>
                  /\ ~IsNone(task[i].result)
                  /\ Val(task[i].result).video_id = df[i].video_id
                  /\ StatusAt(i) \in {"success", "failed", "skipped"}
                  /\ StatusAt(i) = "skipped" <=> task[i].runs = 0
    /\ pc \in {"summary", "done"} =>
           /\ Len(task) = Len(df)
           /\ \A i \in 1..Len(task) : task[i].state = "collected"

\* a run has ended with a skipped item, a failed one and a downloaded one
C17_Witness ==
    /\ pc = "done"
    /\ \E i, j, k \in 1..Len(task) :
           /\ StatusAt(i) = "skipped" /\ task[i].runs = 0
           /\ StatusAt(j) = "failed" /\ task[j].runs = 1
           /\ StatusAt(k) = "success" /\ task[k].runs = 1

(***************************************************************************)
(* C18: the outcome depends on the exit code only. A downloader invocation *)
(* yields success with no reason iff its exit code is 0; otherwise it      *)
(* yields failed, with the URL of the item and a non-empty reason,         *)
(* whatever the diagnostic output contains.                                *)
(***************************************************************************)
C18_ExitCodeDecides ==
    ext.pc = "returned" =>
        LET r == Val(ext.result)
        IN  /\ r.status = "success" <=> ext.returncode = 0
            /\ r.status \in {"success", "failed"}
            /\ r.video_id = ext.row.video_id
            /\ ext.returncode = 0 => IsNone(r.error_reason)
            /\ ext.returncode # 0 =>
                   /\ r.video_url = ext.row.video_url
                   /\ ~IsNone(r.error_reason)
                   /\ Val(r.error_reason) # <<>>

\* a failed invocation whose output is not empty and has no usable line
C18_Witness ==
    /\ ext.pc = "returned"
    /\ ext.returncode # 0
    /\ ext.stderr # <<>>
    /\ Val(ext.result).status = "failed"
    /\ Val(ext.result).error_reason = Some(UnknownError)

(***************************************************************************)
(* C19: no lost updates during aggregation. In every reachable state       *)
(* downloaded_count + failed_count + skipped_count is the number of        *)
(* completions already aggregated; each completion changes exactly one of  *)
(* the three counters, by exactly 1; and every other step, the steps of    *)
(* the worker tasks included, leaves the counters and the failure map      *)
(* unchanged.                                                              *)
(***************************************************************************)
Aggregated == {i \in 1..Len(task) : task[i].state = "collected"}
CountSum == downloaded_count + failed_count + skipped_count

AggregationStep ==
    /\ Cardinality(Aggregated') = Cardinality(Aggregated) =>
           UNCHANGED counters
    /\ Cardinality(Aggregated') # Cardinality(Aggregated) =>
           /\ Cardinality(Aggregated') = Cardinality(Aggregated) + 1
           /\ CountSum' = CountSum + 1
           /\ downloaded_count' \in {downloaded_count, downloaded_count + 1}
           /\ failed_count' \in {failed_count, failed_count + 1}
           /\ skipped_count' \in {skipped_count, skipped_count + 1}

C19_NoLostUpdates ==
    /\ [](CountSum = Cardinality(Aggregated))
    /\ [][AggregationStep]_vars

\* completions are aggregated while a downloader is still running
C19_Witness ==
    /\ Running # {}
    /\ Cardinality(Aggregated) >= 2
    /\ CountSum = Cardinality(Aggregated)
    /\ downloaded_count >= 1
    /\ failed_count >= 1

====
